---- MODULE Spec2Model ----
(***************************************************************************)
(* Model of src/src/rp_handler.py: the job handler of a ComfyUI worker.    *)
(* One job is followed from its raw input to the value the handler         *)
(* returns (or to the exception that leaves it).  The backend, the         *)
(* workflow catalog and the output directory are the environment: every    *)
(* answer they can give is a nondeterministic choice of the action that    *)
(* asks for it.                                                            *)
(*                                                                         *)
(* Strings whose content matters are sequences of tokens:                  *)
(*   image strings over "data:", ",", "A" (a well-padded base64 quantum),  *)
(*   "!" (a chunk that breaks base64 padding); file names as               *)
(*   <<stem, ".json">>.                                                    *)
(* Input values are typed as the data model types them: a workflow is a    *)
(* mapping of nodes, workflow_name is a string, an element of images is a  *)
(* mapping whose name / image values are strings.                          *)
(***************************************************************************)
EXTENDS Integers, Sequences, FiniteSets, TLC

(* ------------------------------ bounds -------------------------------- *)
\* largest value of COMFY_POLLING_MAX_RETRIES the environment may set
MaxPollRetries == 2
\* attempt budget the handler gives check_server (500 in the source, scaled)
MaxProbeAttempts == 2
\* longest images list of a job input
MaxImages == 2

(* --------------------------- program constants ------------------------ *)
COMFY_API_AVAILABLE_MAX_RETRIES == MaxProbeAttempts

InlineBase64Types == {"LoadImageFromBase64", "Base64ToImage"}

(* ------------------------------ values -------------------------------- *)
\* a workflow node: class_type, whether it has an "inputs" mapping, and the
\* value of inputs.data (<<>> while unset)
Node(ct, hasInputs) == [class_type |-> ct, hasInputs |-> hasInputs, data |-> <<>>]

NodeKinds ==
    { Node("KSampler", TRUE), Node("LoadImageFromBase64", TRUE),
      Node("Base64ToImage", TRUE), Node("LoadImageFromBase64", FALSE) }

SeqsUpTo(S, n) == UNION { [1..k -> S] : k \in 0..n }

\* a JSON value used as a workflow.  wrap = "absent": None; wrap = "none":
\* the mapping of the nodes themselves (empty when nodes = <<>>);
\* wrap = "input": the mapping {"input": {"workflow": nodes}}.
Wf(wrap, nodes) == [wrap |-> wrap, nodes |-> nodes]
NoneWf == Wf("absent", <<>>)

\* inline workflows: the empty mapping, and every workflow of one or two nodes
InlineWorkflows ==
    { Wf("none", <<>>) }
    \cup { Wf("none", <<a>>) : a \in NodeKinds }
    \cup { Wf("none", <<a, b>>) : a \in NodeKinds, b \in NodeKinds }

CatalogNodeSeqs ==
    { <<>>, <<Node("KSampler", TRUE)>>, <<Node("Base64ToImage", TRUE)>> }

\* Python truthiness of a workflow value
Truthy(wf) ==
    CASE wf.wrap = "absent" -> FALSE
      [] wf.wrap = "none"   -> wf.nodes # <<>>
      [] wf.wrap = "input"  -> TRUE

\* the (node_id, node_data) pairs of workflow.items(), in iteration order;
\* the envelope {"input": ...} has one item, which carries no class_type
Items(wf) ==
    IF wf.wrap = "input"
    THEN << [class_type |-> "", hasInputs |-> FALSE, data |-> <<>>] >>
    ELSE wf.nodes

\* image strings
ImageStrings ==
    { <<"A">>, <<"!">>, <<"data:", "A", ",", "A">> }

\* an element of the images list: which of its keys "name" and "image" it
\* has, and the value under "image"
ImageElems ==
    { [hasName |-> TRUE, hasImage |-> TRUE, image |-> s] : s \in ImageStrings }
    \cup { [hasName |-> FALSE, hasImage |-> TRUE, image |-> <<"A">>],
           [hasName |-> TRUE, hasImage |-> FALSE, image |-> <<>>] }

\* the value of job_input["images"]
ImagesValues ==
    { [kind |-> "absent", elems |-> <<>>], [kind |-> "notalist", elems |-> <<>>] }
    \cup { [kind |-> "list", elems |-> es] : es \in SeqsUpTo(ImageElems, MaxImages) }

\* the value of job_input["workflow_name"]
NoName == [present |-> FALSE, chars |-> <<>>]
NameValues ==
    { NoName, [present |-> TRUE, chars |-> <<>>],
      [present |-> TRUE, chars |-> <<"basic">>],
      [present |-> TRUE, chars |-> <<"basic", ".json">>] }

NameTruthy(nm) == nm.present /\ nm.chars # <<>>

\* a file of the workflow catalog
CatalogPath == <<"basic", ".json">>
MissingFile == [state |-> "missing", shape |-> "bare", nodes |-> <<>>]
CatalogFiles ==
    { MissingFile, [state |-> "malformed", shape |-> "bare", nodes |-> <<>>] }
    \cup { [state |-> "ok", shape |-> sh, nodes |-> ns] :
              sh \in {"bare", "prompt", "inputwf"}, ns \in CatalogNodeSeqs }

\* a mapping given as job input
Body(wf, nm, im) == [workflow |-> wf, workflow_name |-> nm, images |-> im]
NoImages == [kind |-> "absent", elems |-> <<>>]
EmptyBody == Body(NoneWf, NoName, NoImages)

\* the workflow / workflow_name pairs of the inputs: every inline workflow
\* alone or with an empty name, and a catalog name alone or beside an inline
\* workflow
WorkflowPairs ==
    { <<wf, NoName>> : wf \in InlineWorkflows \cup {NoneWf} }
    \cup { <<wf, [present |-> TRUE, chars |-> <<>>]>> :
              wf \in {NoneWf, Wf("none", <<>>), Wf("none", <<Node("KSampler", TRUE)>>)} }
    \cup { <<wf, [present |-> TRUE, chars |-> <<"basic">>]>> :
              wf \in {NoneWf, Wf("none", <<>>), Wf("none", <<Node("LoadImageFromBase64", TRUE)>>)} }
    \cup { <<NoneWf, [present |-> TRUE, chars |-> <<"basic", ".json">>]>> }

\* job["input"]: None, a string (that is no JSON, that is JSON for a value
\* that is no mapping, or that is JSON for the mapping body), or a mapping
JobInputs ==
    { [form |-> "null", parse |-> "mapping", body |-> EmptyBody],
      [form |-> "str", parse |-> "invalid", body |-> EmptyBody],
      [form |-> "str", parse |-> "nonmapping", body |-> EmptyBody] }
    \cup { [form |-> "str", parse |-> "mapping", body |-> Body(wf, NoName, NoImages)] :
              wf \in {NoneWf, Wf("none", <<Node("KSampler", TRUE)>>)} }
    \cup { [form |-> "map", parse |-> "mapping", body |-> Body(pr[1], pr[2], im)] :
              pr \in WorkflowPairs, im \in ImagesValues }

(* --------------------------- pure functions --------------------------- *)
\* str.endswith('.json')
EndsWithJson(chars) == chars # <<>> /\ chars[Len(chars)] = ".json"

\* load_workflow_by_name: the workflow of the catalog file, or None
load_workflow_by_name(workflow_name, cat) ==
    LET fname == IF EndsWithJson(workflow_name)
                 THEN workflow_name
                 ELSE Append(workflow_name, ".json")
        file  == IF fname = CatalogPath THEN cat ELSE MissingFile
    IN  IF file.state = "missing" THEN NoneWf
        ELSE IF file.state = "malformed" THEN NoneWf
        ELSE IF file.shape # "prompt"
             THEN \* a dict without "prompt": returned as it is
                  IF file.shape = "inputwf" THEN Wf("input", file.nodes)
                                            ELSE Wf("none", file.nodes)
             ELSE \* a dict with "prompt": its value
                  Wf("none", file.nodes)

\* variant: only the "name" key is looked for
ImagesWellFormed_NameOnly(im) ==
    /\ im.kind = "list"
    /\ \A i \in 1..Len(im.elems) : im.elems[i].hasName

\* the check of line 115-117 on the images value
ImagesWellFormed(im) ==
    /\ im.kind = "list"
    /\ \A i \in 1..Len(im.elems) : im.elems[i].hasName /\ im.elems[i].hasImage

NoData == [workflow |-> NoneWf, images |-> NoImages]
Ret(data, err) == [raised |-> FALSE, data |-> data, error |-> err]

\* variant: an inline workflow, when there is one, is used before the name
validate_input_InlineFirst(inp, cat) ==
    IF inp.form = "null" THEN Ret(NoData, "Please provide input")
    ELSE IF inp.form = "str" /\ inp.parse = "invalid"
         THEN Ret(NoData, "Invalid JSON format in input")
    ELSE IF inp.form = "str" /\ inp.parse = "nonmapping"
         THEN [raised |-> TRUE, data |-> NoData, error |-> ""]
    ELSE
      LET workflow      == inp.body.workflow
          workflow_name == inp.body.workflow_name
          images        == inp.body.images
          loaded        == IF Truthy(workflow) THEN workflow
                           ELSE load_workflow_by_name(workflow_name.chars, cat)
      IN  IF ~Truthy(workflow) /\ ~NameTruthy(workflow_name)
          THEN Ret(NoData, "Missing 'workflow' or 'workflow_name' parameter")
          ELSE IF ~Truthy(loaded)
          THEN Ret(NoData, "Could not load workflow")
          ELSE IF images.kind # "absent" /\ ~ImagesWellFormed(images)
          THEN Ret(NoData, "'images' must be a list of objects with 'name' and 'image' keys")
          ELSE Ret([workflow |-> loaded, images |-> images], "")

\* validate_input: (validated_data, error_message), or an exception.
\* error = "" stands for None.
validate_input(inp, cat) ==
    IF inp.form = "null" THEN Ret(NoData, "Please provide input")
    ELSE IF inp.form = "str" /\ inp.parse = "invalid"
         THEN Ret(NoData, "Invalid JSON format in input")
    ELSE IF inp.form = "str" /\ inp.parse = "nonmapping"
         THEN \* job_input.get on a value that is no mapping: AttributeError
              [raised |-> TRUE, data |-> NoData, error |-> ""]
    ELSE
      LET workflow      == inp.body.workflow
          workflow_name == inp.body.workflow_name
          images        == inp.body.images
          loaded        == IF NameTruthy(workflow_name)
                           THEN load_workflow_by_name(workflow_name.chars, cat)
                           ELSE workflow
      IN  IF ~Truthy(workflow) /\ ~NameTruthy(workflow_name)
          THEN Ret(NoData, "Missing 'workflow' or 'workflow_name' parameter")
          ELSE IF NameTruthy(workflow_name) /\ ~Truthy(loaded)
          THEN Ret(NoData, "Could not load workflow")
          ELSE IF images.kind # "absent" /\ ~ImagesWellFormed(images)
          THEN Ret(NoData, "'images' must be a list of objects with 'name' and 'image' keys")
          ELSE Ret([workflow |-> loaded, images |-> images], "")

\* variant: everything up to the first comma is dropped, prefix or not
StripDataUrl_AnyComma(str) ==
    IF \E i \in 1..Len(str) : str[i] = ","
    THEN SubSeq(str, (CHOOSE i \in 1..Len(str) :
                        str[i] = "," /\ \A j \in 1..(i - 1) : str[j] # ",") + 1,
                Len(str))
    ELSE str

\* the data-URL handling of upload_images, lines 177-180
StartsWithData(str) == str # <<>> /\ str[1] = "data:"
Find(str, tok) ==
    IF \E i \in 1..Len(str) : str[i] = tok
    THEN CHOOSE i \in 1..Len(str) : str[i] = tok /\ \A j \in 1..(i - 1) : str[j] # tok
    ELSE 0
StripDataUrl(str) ==
    IF StartsWithData(str) /\ Find(str, ",") # 0
    THEN SubSeq(str, Find(str, ",") + 1, Len(str))
    ELSE str

\* base64.b64decode: characters outside the alphabet are dropped, what is
\* left must be well padded
B64DecodeOk(str) == \A i \in 1..Len(str) : str[i] # "!"

(* ------------------------- results and outputs ------------------------ *)
\* a mapping returned by the handler: its keys and the values under them
\* (texts are sequences of strings)
NoResult ==
    [keys |-> {}, error |-> <<>>, status |-> "", message |-> <<>>,
     details |-> <<>>, path |-> "", all_images |-> <<>>]
ErrorResult(msg) == [NoResult EXCEPT !.keys = {"error"}, !.error = msg]

\* an entry of a node's "images" list in the history outputs
Entry(fname) == [hasFilename |-> TRUE, filename |-> fname]
NoFilenameEntry == [hasFilename |-> FALSE, filename |-> ""]
NodeOutput(entries) == [hasImages |-> TRUE, images |-> entries]
NoImagesOutput == [hasImages |-> FALSE, images |-> <<>>]

\* non-empty "outputs" values of a history entry
OutputsValues ==
    { << NodeOutput(<< Entry("a.png") >>) >>,
      << NoImagesOutput, NodeOutput(<< Entry("b.png"), Entry("a.png") >>) >>,
      << NoImagesOutput >>,
      << NodeOutput(<< Entry("a.png"), NoFilenameEntry >>) >> }

\* what GET /history/<prompt_id> answers: the mapping has the id or not, and
\* the "outputs" of its entry (<<>>: none yet)
\* raises: urlopen or json.loads raised instead
HistoryAnswers ==
    { [raises |-> TRUE, hasId |-> FALSE, outputs |-> <<>>],
      [raises |-> FALSE, hasId |-> FALSE, outputs |-> <<>>],
      [raises |-> FALSE, hasId |-> TRUE, outputs |-> <<>>] }
    \cup { [raises |-> FALSE, hasId |-> TRUE, outputs |-> o] : o \in OutputsValues }
NoHistory == [raises |-> FALSE, hasId |-> FALSE, outputs |-> <<>>]

\* the output directory in os.walk order: name and age in seconds
File(name, age) == [name |-> name, age |-> age]
FileSystems ==
    { <<>>, << File("a.png", 0) >>, << File("b.png", 30) >>,
      << File("c.txt", 0), File("b.png", 29) >>,
      << File("b.png", 0), File("a.png", 0) >> }

IsImageName(name) == name \in {"a.png", "b.png"}
Exists(fs, name) == \E k \in 1..Len(fs) : fs[k].name = name

PromptIds == {"p1", "p2"}

(* ------------------------------- state -------------------------------- *)
VARIABLES
    job_input,      \* job["input"]
    catalog,        \* the file basic.json of WORKFLOW_DIR
    COMFY_POLLING_MAX_RETRIES,  \* read from the environment at import
    pc,             \* the handler's position
    workflow,       \* validated_data["workflow"], as modified by injection
    images,         \* validated_data["images"]
    probe,          \* check_server: loop index i and return value
    inject,         \* base64_nodes_found
    upload,         \* upload_images: loop index, upload_errors, responses
    queue,          \* queue_workflow: whether it was called, prompt_id
    poll,           \* retries, history, and how the loop ended
    resolve,        \* process_output_images: calls, argument, environment seen
    result,         \* the mapping the handler returned
    fault,          \* the exception that left the handler ("" if none)
    net,            \* observer: the requests sent and the answers received
    strip,          \* an image string and the payloads upload and injection use
    slots,          \* two jobs handled at once: the state of each handler
    backend         \* two jobs handled at once: the ComfyUI server they share

vars == << job_input, catalog, COMFY_POLLING_MAX_RETRIES, pc, workflow, images,
           probe, inject, upload, queue, poll, resolve, result, fault, net,
           strip, slots, backend >>

\* the variables of one handler run
one == << job_input, catalog, COMFY_POLLING_MAX_RETRIES, pc, workflow, images,
          probe, inject, upload, queue, poll, resolve, result, fault, net >>

\* an image string before either stage has handled it
Unstripped(str) == [input |-> str, uploaded |-> FALSE, upload |-> <<>>,
                    injected |-> FALSE, inject |-> <<>>]
NoStrip == Unstripped(<<>>)

\* the server before any prompt: the prompts it has queued (the job each
\* came from), the history entry of each executed prompt, and the files of
\* its output directory
NoBackend == [queued |-> <<>>, executed |-> <<>>, files |-> <<>>]

\* the handler's locals at entry
Fresh ==
    /\ pc = "validate"
    /\ workflow = NoneWf
    /\ images = NoImages
    /\ probe = [i |-> 0, ret |-> "none"]
    /\ inject = [base64_nodes_found |-> FALSE]
    /\ upload = [idx |-> 0, upload_errors |-> <<>>, responses |-> <<>>]
    /\ queue = [called |-> FALSE, prompt_id |-> ""]
    /\ poll = [retries |-> 0, history |-> NoHistory, state |-> "idle"]
    /\ resolve = [calls |-> 0, outputs |-> <<>>, fs |-> <<>>, bucket |-> FALSE,
                  scanned |-> FALSE, uploads |-> 0]
    /\ result = NoResult
    /\ fault = ""
    /\ net = [gets |-> 0, probeFails |-> 0, lastProbe |-> "",
              writes |-> 0, uploadCalls |-> 0, attempted |-> <<>>, failed |-> <<>>,
              posts |-> 0,
              submissions |-> 0, submitFailed |-> FALSE, issued |-> "",
              fetches |-> 0, asked |-> {}, incomplete |-> 0, complete |-> 0,
              raised |-> 0, last |-> NoHistory]

Init ==
    /\ job_input \in JobInputs
    /\ catalog \in (IF job_input.form = "map" /\ NameTruthy(job_input.body.workflow_name)
                     THEN CatalogFiles ELSE {MissingFile})
    /\ COMFY_POLLING_MAX_RETRIES \in 0..MaxPollRetries
    /\ Fresh
    /\ strip = NoStrip
    /\ slots = <<>>
    /\ backend = NoBackend

(* ------------------------------ handler ------------------------------- *)
\* lines 333-340: validate_input and the early return
Validate ==
    /\ pc = "validate"
    /\ LET r == validate_input(job_input, catalog)
       IN  IF r.raised
           THEN /\ fault' = "AttributeError"
                /\ pc' = "raised"
                /\ UNCHANGED << workflow, images, result >>
           ELSE IF r.error # ""
           THEN /\ result' = ErrorResult(<< r.error >>)
                /\ pc' = "done"
                /\ UNCHANGED << workflow, images, fault >>
           ELSE /\ workflow' = r.data.workflow
                /\ images' = r.data.images
                /\ pc' = "probe"
                /\ UNCHANGED << result, fault >>
    /\ UNCHANGED << strip, slots, backend, job_input, catalog, COMFY_POLLING_MAX_RETRIES, probe, inject,
                    upload, queue, poll, resolve, net >>

\* what GET <url> can do: answer 200, answer another status, or raise
ProbeAnswers == {"200", "non200", "RequestException"}

\* check_server, lines 140-152: one pass of the loop body
check_server_attempt(p, answer) ==
    IF answer = "200"
    THEN [p EXCEPT !.ret = "true"]
    ELSE [p EXCEPT !.i = @ + 1]

\* variant: range(retries + 1)
check_server_continues_OneMore(p, retries) == p.i <= retries

\* check_server, line 139: for i in range(retries)
check_server_continues(p, retries) == p.i < retries

\* variant: a probe that returned False ends the job
after_probe_Gated(ret) == IF ret = "true" THEN "inject" ELSE "done"

\* lines 343-349: the call is a statement, its value is dropped, and the
\* handler goes on with the images
after_probe(ret) == "inject"

CheckServerAttempt ==
    /\ pc = "probe"
    /\ check_server_continues(probe, COMFY_API_AVAILABLE_MAX_RETRIES)
    /\ \E answer \in ProbeAnswers :
          /\ probe' = check_server_attempt(probe, answer)
          /\ pc' = IF probe'.ret = "none" THEN "probe" ELSE after_probe(probe'.ret)
          /\ net' = [net EXCEPT !.gets = @ + 1,
                                !.probeFails = IF answer = "200" THEN @ ELSE @ + 1,
                                !.lastProbe = answer]
    /\ UNCHANGED << strip, slots, backend, job_input, catalog, COMFY_POLLING_MAX_RETRIES, workflow, images,
                    inject, upload, queue, poll, resolve, result, fault >>

\* check_server, lines 154-157: the budget is spent, return False; the
\* handler drops the value (lines 343-347)
CheckServerGiveUp ==
    /\ pc = "probe"
    /\ ~check_server_continues(probe, COMFY_API_AVAILABLE_MAX_RETRIES)
    /\ probe' = [probe EXCEPT !.ret = "false"]
    /\ pc' = after_probe(probe'.ret)
    /\ UNCHANGED << strip, slots, backend, job_input, catalog, COMFY_POLLING_MAX_RETRIES, workflow, images,
                    inject, upload, queue, poll, resolve, result, fault, net >>

\* the positions of the nodes that take inline base64, in iteration order
MatchingNodes(wf) ==
    { k \in 1..Len(Items(wf)) : Items(wf)[k].class_type \in InlineBase64Types }
FirstMatching(wf) ==
    CHOOSE k \in MatchingNodes(wf) : \A m \in MatchingNodes(wf) : k <= m

\* if images: (line 350)
ImagesTruthy(im) == im.kind = "list" /\ im.elems # <<>>

\* variant: the image is written into every matching node
inject_image_AllNodes(wf, im) ==
    [wf EXCEPT !.nodes = [k \in 1..Len(wf.nodes) |->
        IF k \in MatchingNodes(wf)
        THEN [wf.nodes[k] EXCEPT !.data = StripDataUrl(im.elems[1].image)]
        ELSE wf.nodes[k]]]

\* lines 357-361: the data-URL handling of the injection
InjectStripDataUrl(str) ==
    IF StartsWithData(str)
    THEN IF Find(str, ",") # 0
         THEN SubSeq(str, Find(str, ",") + 1, Len(str))
         ELSE str
    ELSE str

\* lines 352-371: the workflow after the injection of the first image into
\* the first matching node
inject_image(wf, im) ==
    [wf EXCEPT !.nodes[FirstMatching(wf)].data = InjectStripDataUrl(im.elems[1].image)]

\* line 365 raises KeyError when the node has no "inputs"
inject_raises(wf) == ~wf.nodes[FirstMatching(wf)].hasInputs

ChangedNodes(before, after) ==
    Cardinality({ k \in 1..Len(before.nodes) : before.nodes[k] # after.nodes[k] })

\* lines 350-375: injection, or the call of upload_images
InjectImages ==
    /\ pc = "inject"
    /\ IF ~ImagesTruthy(images)
       THEN /\ pc' = "queue"
            /\ UNCHANGED << workflow, inject, upload, fault, net >>
       ELSE IF MatchingNodes(workflow) # {}
       THEN IF inject_raises(workflow)
            THEN /\ fault' = "KeyError"
                 /\ pc' = "raised"
                 /\ UNCHANGED << workflow, inject, upload, net >>
            ELSE /\ workflow' = inject_image(workflow, images)
                 /\ inject' = [base64_nodes_found |-> TRUE]
                 /\ net' = [net EXCEPT !.writes = @ + ChangedNodes(workflow, workflow')]
                 /\ pc' = "queue"
                 /\ UNCHANGED << upload, fault >>
       ELSE /\ upload' = [upload EXCEPT !.idx = 1]
            /\ net' = [net EXCEPT !.uploadCalls = @ + 1]
            /\ pc' = "upload"
            /\ UNCHANGED << workflow, inject, fault >>
    /\ UNCHANGED << strip, slots, backend, job_input, catalog, COMFY_POLLING_MAX_RETRIES, images, probe,
                    queue, poll, resolve, result >>

\* what POST /upload/image can do
UploadAnswers == {"200", "non200", "exception"}

\* variant: a failed image ends the loop over the next image too
upload_one_SkipAfterError(u, image, answer) ==
    IF B64DecodeOk(StripDataUrl(image.image)) /\ answer = "200"
    THEN [u EXCEPT !.responses = Append(@, u.idx), !.idx = @ + 1]
    ELSE [u EXCEPT !.upload_errors = Append(@, u.idx), !.idx = @ + 2]

\* upload_images, lines 172-200: one pass of the loop body, for image u.idx
upload_one(u, image, answer) ==
    IF ~B64DecodeOk(StripDataUrl(image.image))
    THEN [u EXCEPT !.upload_errors = Append(@, u.idx), !.idx = @ + 1]
    ELSE IF answer = "200"
    THEN [u EXCEPT !.responses = Append(@, u.idx), !.idx = @ + 1]
    ELSE [u EXCEPT !.upload_errors = Append(@, u.idx), !.idx = @ + 1]

\* an image whose payload does not decode sends no request
UploadImage ==
    /\ pc = "upload"
    /\ upload.idx <= Len(images.elems)
    /\ \E answer \in UploadAnswers :
          LET image   == images.elems[upload.idx]
              decodes == B64DecodeOk(StripDataUrl(image.image))
          IN  /\ decodes \/ answer = "exception"
              /\ upload' = upload_one(upload, image, answer)
              /\ net' = [net EXCEPT
                           !.attempted = Append(@, upload.idx),
                           !.failed = IF decodes /\ answer = "200"
                                      THEN @ ELSE Append(@, upload.idx),
                           !.posts = IF decodes THEN @ + 1 ELSE @]
    /\ UNCHANGED << strip, slots, backend, job_input, catalog, COMFY_POLLING_MAX_RETRIES, pc, workflow, images,
                    probe, inject, queue, poll, resolve, result, fault >>

\* variant: the errors are dropped from the aggregate
upload_result_AlwaysSuccess(u) ==
    [NoResult EXCEPT !.keys = {"status", "message", "details"},
                     !.status = "success",
                     !.message = << "All images uploaded successfully" >>,
                     !.details = u.responses]

\* upload_images, lines 202-215: the aggregate result
upload_result(u) ==
    IF u.upload_errors # <<>>
    THEN [NoResult EXCEPT !.keys = {"status", "message", "details"},
                          !.status = "error",
                          !.message = << "Some images failed to upload" >>,
                          !.details = u.upload_errors]
    ELSE [NoResult EXCEPT !.keys = {"status", "message", "details"},
                          !.status = "success",
                          !.message = << "All images uploaded successfully" >>,
                          !.details = u.responses]

\* the return of upload_images and lines 376-378 of the handler
UploadReturn ==
    /\ pc = "upload"
    /\ upload.idx > Len(images.elems)
    /\ IF upload_result(upload).status = "error"
       THEN /\ result' = upload_result(upload)
            /\ pc' = "done"
       ELSE /\ pc' = "queue"
            /\ UNCHANGED result
    /\ UNCHANGED << strip, slots, backend, job_input, catalog, COMFY_POLLING_MAX_RETRIES, workflow, images,
                    probe, inject, upload, queue, poll, resolve, fault, net >>

\* what POST /prompt can do: a transport or parse error ("raise"), a JSON
\* answer without "prompt_id" ("noid"), or an answer with a prompt_id
QueueAnswers == {"raise", "noid"} \cup PromptIds

\* variant: a response without "prompt_id" is taken to name the first prompt
queue_workflow_DefaultId(q, answer) ==
    IF answer \in PromptIds
    THEN [called |-> TRUE, prompt_id |-> answer]
    ELSE [called |-> TRUE, prompt_id |-> "p1"]

\* lines 381-387: queue_workflow and the read of "prompt_id"
queue_workflow(q, answer) ==
    IF answer \in PromptIds
    THEN [called |-> TRUE, prompt_id |-> answer]
    ELSE [called |-> TRUE, prompt_id |-> ""]

QueueWorkflow ==
    /\ pc = "queue"
    /\ \E answer \in QueueAnswers :
          /\ queue' = queue_workflow(queue, answer)
          /\ net' = [net EXCEPT !.submissions = @ + 1,
                                !.submitFailed = answer \notin PromptIds,
                                !.issued = IF answer \in PromptIds THEN answer ELSE ""]
          /\ IF queue'.prompt_id # ""
             THEN /\ poll' = [poll EXCEPT !.state = "polling"]
                  /\ pc' = "poll"
                  /\ UNCHANGED result
             ELSE /\ result' = ErrorResult(<< "Error queuing workflow", answer >>)
                  /\ pc' = "done"
                  /\ UNCHANGED poll
    /\ UNCHANGED << strip, slots, backend, job_input, catalog, COMFY_POLLING_MAX_RETRIES, workflow, images,
                    probe, inject, upload, resolve, fault >>

\* variant: the outputs are not looked at
HistoryComplete_IdOnly(history) == history.hasId

\* line 399: the record has the id and its entry has non-empty outputs
HistoryComplete(history) == history.hasId /\ history.outputs # <<>>

\* variant: while retries <= COMFY_POLLING_MAX_RETRIES
poll_continues_Inclusive(p, maxRetries) == p.retries <= maxRetries

\* line 395: while retries < COMFY_POLLING_MAX_RETRIES
poll_continues(p, maxRetries) == p.retries < maxRetries

\* variant: a raising fetch is counted as one more retry
poll_attempt_SwallowError(p, answer) ==
    IF answer.raises
    THEN [p EXCEPT !.retries = @ + 1]
    ELSE IF answer.hasId /\ answer.outputs # <<>>
    THEN [p EXCEPT !.history = answer, !.state = "completed"]
    ELSE [p EXCEPT !.history = answer, !.retries = @ + 1]

\* lines 394-410: one pass of the polling loop, given what the fetch did
poll_attempt(p, answer) ==
    IF answer.raises
    THEN [p EXCEPT !.state = "errored"]
    ELSE IF HistoryComplete(answer)
    THEN [p EXCEPT !.history = answer, !.state = "completed"]
    ELSE [p EXCEPT !.history = answer, !.retries = @ + 1]

\* the observer's own reading of an answer
Populated(answer) == ~answer.raises /\ answer.hasId /\ answer.outputs # <<>>

PollAttempt ==
    /\ pc = "poll"
    /\ poll_continues(poll, COMFY_POLLING_MAX_RETRIES)
    /\ \E answer \in HistoryAnswers :
          /\ poll' = poll_attempt(poll, answer)
          /\ net' = [net EXCEPT
                       !.fetches = @ + 1,
                       !.asked = @ \cup {queue.prompt_id},
                       !.raised = IF answer.raises THEN @ + 1 ELSE @,
                       !.complete = IF Populated(answer) THEN @ + 1 ELSE @,
                       !.incomplete = IF ~answer.raises /\ ~Populated(answer)
                                      THEN @ + 1 ELSE @,
                       !.last = answer]
          /\ pc' = CASE poll'.state = "polling"   -> "poll"
                     [] poll'.state = "completed" -> "resolve"
                     [] poll'.state = "errored"   -> "done"
          /\ result' = IF poll'.state = "errored"
                       THEN ErrorResult(<< "Error waiting for image generation" >>)
                       ELSE result
    /\ UNCHANGED << strip, slots, backend, job_input, catalog, COMFY_POLLING_MAX_RETRIES, workflow, images,
                    probe, inject, upload, queue, resolve, fault >>

\* lines 405-407: the else branch of the while loop
PollExhausted ==
    /\ pc = "poll"
    /\ ~poll_continues(poll, COMFY_POLLING_MAX_RETRIES)
    /\ poll' = [poll EXCEPT !.state = "exhausted"]
    /\ result' = ErrorResult(<< "Max retries reached while waiting for image generation" >>)
    /\ pc' = "done"
    /\ UNCHANGED << strip, slots, backend, job_input, catalog, COMFY_POLLING_MAX_RETRIES, workflow, images,
                    probe, inject, upload, queue, resolve, fault, net >>

(* ------------------------- process_output_images ---------------------- *)
RECURSIVE Flatten(_)
\* the entries of every node output that has "images", in iteration order
Flatten(outputs) ==
    IF outputs = <<>> THEN <<>>
    ELSE (IF Head(outputs).hasImages THEN Head(outputs).images ELSE <<>>)
         \o Flatten(Tail(outputs))

RECURSIVE ExistingPaths(_, _)
\* method 1, lines 274-280: the paths of the entries that exist on disk
ExistingPaths(entries, fs) ==
    IF entries = <<>> THEN <<>>
    ELSE (IF Exists(fs, Head(entries).filename)
          THEN << Head(entries).filename >> ELSE <<>>)
         \o ExistingPaths(Tail(entries), fs)

RECURSIVE RecentImages(_)
\* method 2, lines 285-295: image files modified less than 30 seconds ago
RecentImages(fs) ==
    IF fs = <<>> THEN <<>>
    ELSE (IF IsImageName(Head(fs).name) /\ Head(fs).age < 30
          THEN << Head(fs).name >> ELSE <<>>)
         \o RecentImages(Tail(fs))

\* variant: the directory is scanned whatever method 1 found
ScanNeeded_Always(outputs, fs) == TRUE

\* line 283: if not image_paths
ScanNeeded(outputs, fs) == ExistingPaths(Flatten(outputs), fs) = <<>>

\* lines 271-295: image_paths
ImagePaths(outputs, fs) ==
    IF ScanNeeded(outputs, fs) THEN RecentImages(fs)
                               ELSE ExistingPaths(Flatten(outputs), fs)

\* lines 297-323: the result for image_paths
images_result(image_paths, bucket) ==
    IF image_paths # <<>>
    THEN [NoResult EXCEPT
            !.keys = {"status", "message", "path", "all_images"},
            !.status = "success",
            !.message = << (IF bucket THEN "url" ELSE "base64"), image_paths[1] >>,
            !.path = image_paths[1],
            !.all_images = image_paths]
    ELSE [NoResult EXCEPT
            !.keys = {"status", "message"},
            !.status = "error",
            !.message = << "No output images found in the output directory" >>]

\* line 277 raises KeyError on an entry without "filename"
resolve_raises(outputs) ==
    \E k \in 1..Len(Flatten(outputs)) : ~Flatten(outputs)[k].hasFilename

\* lines 413-418: process_output_images on the outputs of the last record,
\* and the merge with refresh_worker.  fs, bucket and io are the output
\* directory, the presence of BUCKET_ENDPOINT_URL and whether reading or
\* uploading the chosen file works.
ResolveOutput ==
    /\ pc = "resolve"
    /\ \E fs \in FileSystems, bucket \in BOOLEAN, io \in {"ok", "fails"} :
          LET outputs == poll.history.outputs
              paths   == ImagePaths(outputs, fs)
              seen    == [calls |-> resolve.calls + 1, outputs |-> outputs,
                          fs |-> fs, bucket |-> bucket,
                          scanned |-> ScanNeeded(outputs, fs),
                          uploads |-> IF bucket /\ paths # <<>> THEN 1 ELSE 0]
          IN  IF resolve_raises(outputs)
              THEN /\ fs = <<>> /\ ~bucket /\ io = "ok"
                   /\ resolve' = [seen EXCEPT !.scanned = FALSE, !.uploads = 0]
                   /\ fault' = "KeyError"
                   /\ pc' = "raised"
                   /\ UNCHANGED result
              ELSE IF paths # <<>> /\ io = "fails"
              THEN \* rp_upload.upload_image or open() raises
                   /\ resolve' = seen
                   /\ fault' = IF bucket THEN "UploadError" ELSE "OSError"
                   /\ pc' = "raised"
                   /\ UNCHANGED result
              ELSE /\ io = "ok"
                   /\ resolve' = seen
                   /\ result' = [images_result(paths, bucket) EXCEPT
                                    !.keys = @ \cup {"refresh_worker"}]
                   /\ pc' = "done"
                   /\ UNCHANGED fault
    /\ UNCHANGED << strip, slots, backend, job_input, catalog, COMFY_POLLING_MAX_RETRIES, workflow, images,
                    probe, inject, upload, queue, poll, net >>

Next ==
    \/ Validate
    \/ CheckServerAttempt
    \/ CheckServerGiveUp
    \/ InjectImages
    \/ UploadImage
    \/ UploadReturn
    \/ QueueWorkflow
    \/ PollAttempt
    \/ PollExhausted
    \/ ResolveOutput

Spec == Init /\ [][Next]_vars

\* the handler runs to its end: every call it makes returns or raises
FairSpec == Spec /\ WF_vars(Next)

(* ----------------- the data-URL handling, string by string ------------ *)
MaxStrLen == 4
\* image strings: "data:" , "," and any other character
StripStrings == SeqsUpTo({"data:", ",", "A"}, MaxStrLen)

\* no job is running
Idle ==
    /\ job_input = [form |-> "null", parse |-> "mapping", body |-> EmptyBody]
    /\ catalog = MissingFile
    /\ Fresh

InitStrip ==
    /\ Idle
    /\ COMFY_POLLING_MAX_RETRIES = 0
    /\ strip \in { Unstripped(str) : str \in StripStrings }
    /\ slots = <<>>
    /\ backend = NoBackend

\* upload_images, lines 174-181, on the string
UploadStrip ==
    /\ ~strip.uploaded
    /\ strip' = [strip EXCEPT !.uploaded = TRUE, !.upload = StripDataUrl(strip.input)]
    /\ UNCHANGED << one, slots, backend >>

\* handler, lines 356-362, on the string
InjectStrip ==
    /\ ~strip.injected
    /\ strip' = [strip EXCEPT !.injected = TRUE,
                              !.inject = InjectStripDataUrl(strip.input)]
    /\ UNCHANGED << one, slots, backend >>

NextStrip == UploadStrip \/ InjectStrip

SpecStrip == InitStrip /\ [][NextStrip]_vars

(* ---------------- two jobs handled at once, one backend --------------- *)
Jobs == {1, 2}
IdOf(i) == IF i = 1 THEN "p1" ELSE "p2"
IndexOf(id) == IF id = "p1" THEN 1 ELSE 2
\* the file the backend writes for a prompt of job j
OutputName(j) == IF j = 1 THEN "a.png" ELSE "b.png"
OwnedFile(name, age, owner) == [name |-> name, age |-> age, owner |-> owner]

\* a handler that has validated a workflow without images and probed the
\* backend: it is about to queue the workflow (line 381)
ReadySlot == [pc |-> "queue",
              queue |-> [called |-> FALSE, prompt_id |-> ""],
              poll |-> [retries |-> 0, history |-> NoHistory, state |-> "idle"],
              result |-> NoResult]

InitTwoJobs ==
    /\ Idle
    /\ COMFY_POLLING_MAX_RETRIES = MaxPollRetries
    /\ strip = NoStrip
    /\ slots = [ j \in Jobs |-> ReadySlot ]
    /\ backend = NoBackend

\* lines 381-387 in slot j: POST /prompt raises, or the backend queues the
\* prompt and answers its id
SlotQueue(j) ==
    /\ slots[j].pc = "queue"
    /\ \E answer \in {"raise", IdOf(Len(backend.queued) + 1)} :
          LET q == queue_workflow(slots[j].queue, answer)
          IN  /\ backend' = IF answer = "raise" THEN backend
                            ELSE [backend EXCEPT !.queued = Append(@, j),
                                                 !.executed = Append(@, NoHistory)]
              /\ slots' = [slots EXCEPT
                    ![j].queue = q,
                    ![j].pc = IF q.prompt_id # "" THEN "poll" ELSE "done",
                    ![j].poll.state = IF q.prompt_id # "" THEN "polling" ELSE @,
                    ![j].result = IF q.prompt_id # "" THEN @
                                  ELSE ErrorResult(<< "Error queuing workflow", answer >>)]
    /\ UNCHANGED << one, strip >>

\* the backend executes a queued prompt: its history entry gets outputs,
\* which name the image file it saved or, for a workflow that saves no
\* image, name none
BackendExecute ==
    /\ \E i \in 1..Len(backend.queued), saves \in BOOLEAN :
          LET j    == backend.queued[i]
              outs == IF saves THEN << NodeOutput(<< Entry(OutputName(j)) >>) >>
                               ELSE << NoImagesOutput >>
          IN  /\ ~backend.executed[i].hasId
              /\ backend' = [backend EXCEPT
                    !.executed[i] = [raises |-> FALSE, hasId |-> TRUE, outputs |-> outs],
                    !.files = IF saves THEN Append(@, OwnedFile(OutputName(j), 0, j))
                                       ELSE @]
    /\ UNCHANGED << one, strip, slots >>

\* thirty seconds pass for the files of the output directory
FilesAge ==
    /\ \E k \in 1..Len(backend.files) : backend.files[k].age < 30
    /\ backend' = [backend EXCEPT
          !.files = [ k \in 1..Len(backend.files) |->
                        [backend.files[k] EXCEPT !.age = 30] ]]
    /\ UNCHANGED << one, strip, slots >>

\* lines 395-410 in slot j: one pass of the loop; GET /history/<prompt_id>
\* raises or answers the entry of the slot's prompt
SlotPoll(j) ==
    /\ slots[j].pc = "poll"
    /\ poll_continues(slots[j].poll, COMFY_POLLING_MAX_RETRIES)
    /\ \E answer \in { [raises |-> TRUE, hasId |-> FALSE, outputs |-> <<>>],
                       backend.executed[IndexOf(slots[j].queue.prompt_id)] } :
          LET p == poll_attempt(slots[j].poll, answer)
          IN  slots' = [slots EXCEPT
                  ![j].poll = p,
                  ![j].pc = CASE p.state = "polling"   -> "poll"
                              [] p.state = "completed" -> "resolve"
                              [] p.state = "errored"   -> "done",
                  ![j].result = IF p.state = "errored"
                                THEN ErrorResult(<< "Error waiting for image generation" >>)
                                ELSE @]
    /\ UNCHANGED << one, strip, backend >>

\* lines 405-407 in slot j
SlotPollExhausted(j) ==
    /\ slots[j].pc = "poll"
    /\ ~poll_continues(slots[j].poll, COMFY_POLLING_MAX_RETRIES)
    /\ slots' = [slots EXCEPT
          ![j].poll.state = "exhausted",
          ![j].pc = "done",
          ![j].result = ErrorResult(<< "Max retries reached while waiting for image generation" >>)]
    /\ UNCHANGED << one, strip, backend >>

\* lines 413-418 in slot j: process_output_images reads the one output
\* directory of the backend (line 268), base64 result
SlotResolve(j) ==
    /\ slots[j].pc = "resolve"
    /\ slots' = [slots EXCEPT
          ![j].pc = "done",
          ![j].result = [images_result(ImagePaths(slots[j].poll.history.outputs,
                                                  backend.files), FALSE)
                            EXCEPT !.keys = @ \cup {"refresh_worker"}]]
    /\ UNCHANGED << one, strip, backend >>

NextTwoJobs ==
    \/ \E j \in Jobs : SlotQueue(j)
    \/ BackendExecute
    \/ FilesAge
    \/ \E j \in Jobs : SlotPoll(j)
    \/ \E j \in Jobs : SlotPollExhausted(j)
    \/ \E j \in Jobs : SlotResolve(j)

SpecTwoJobs == InitTwoJobs /\ [][NextTwoJobs]_vars

(* ============================== properties ============================ *)
MaxRetriesError ==
    ErrorResult(<< "Max retries reached while waiting for image generation" >>)
PollingError == ErrorResult(<< "Error waiting for image generation" >>)

\* C1: completion polling, success case.  When the history fetches answer
\* "not populated" N-1 times and a populated record on fetch N (N within
\* the budget), the handler leaves the loop after exactly N fetches, never
\* fetches again, and hands the outputs of that N-th record to
\* process_output_images; it goes to output resolution in no other case.
C1_PollingSuccess ==
    /\ net.complete > 0 =>
          /\ net.complete = 1
          /\ net.raised = 0
          /\ net.fetches = net.incomplete + 1
          /\ net.fetches \in 1..COMFY_POLLING_MAX_RETRIES
          /\ pc \in {"resolve", "done", "raised"}
          /\ IF pc = "resolve"
             THEN resolve.calls = 0 /\ result = NoResult
             ELSE resolve.calls = 1 /\ resolve.outputs = net.last.outputs
    /\ (pc = "resolve" \/ resolve.calls > 0) => net.complete = 1

\* C1 witness: the populated record arrived on the last fetch the budget
\* allows (N = maxAttempts = 2), after one fetch without outputs, and its
\* outputs went to output resolution
C1_Witness ==
    /\ COMFY_POLLING_MAX_RETRIES = 2
    /\ net.fetches = 2 /\ net.incomplete = 1 /\ net.complete = 1
    /\ resolve.calls = 1
    /\ result.status = "success"

\* C2: completion polling, exhaustion.  While polling, every fetch so far
\* was answered without populated outputs; the error 'Max retries reached
\* while waiting for image generation' is returned exactly when
\* maxAttempts fetches were made, none populated and none raising, and
\* then output resolution is never invoked (maxAttempts = 0: no fetch).
C2_PollingExhaustion ==
    /\ pc = "poll" =>
          /\ net.fetches = net.incomplete
          /\ net.fetches <= COMFY_POLLING_MAX_RETRIES
    /\ result = MaxRetriesError =>
          /\ pc = "done"
          /\ net.fetches = COMFY_POLLING_MAX_RETRIES
          /\ net.incomplete = net.fetches
          /\ resolve.calls = 0
    /\ (pc = "done" /\ queue.prompt_id # "" /\ net.complete = 0 /\ net.raised = 0) =>
          /\ result = MaxRetriesError
          /\ net.fetches = COMFY_POLLING_MAX_RETRIES

\* C2 witness: the budget of two fetches was spent without outputs
C2_Witness ==
    /\ COMFY_POLLING_MAX_RETRIES = 2
    /\ net.fetches = 2 /\ net.incomplete = 2
    /\ result = MaxRetriesError
    /\ pc = "done"

\* C3: completion polling, error.  A history fetch that raises ends the
\* polling on that attempt: it is the last fetch, output resolution is not
\* invoked, and the handler has returned the polling error.
C3_PollingError ==
    net.raised > 0 =>
        /\ net.raised = 1
        /\ net.fetches = net.incomplete + 1
        /\ net.complete = 0
        /\ net.last.raises
        /\ pc = "done"
        /\ result = PollingError
        /\ resolve.calls = 0

\* C3 witness: the first fetch raised while the budget allowed two
C3_Witness ==
    /\ COMFY_POLLING_MAX_RETRIES = 2
    /\ net.fetches = 1 /\ net.raised = 1
    /\ result = PollingError

ValidationMessages ==
    { << "Please provide input" >>, << "Invalid JSON format in input" >>,
      << "Missing 'workflow' or 'workflow_name' parameter" >>,
      << "Could not load workflow" >>,
      << "'images' must be a list of objects with 'name' and 'image' keys" >> }

NoBackendCall ==
    /\ net.gets = 0 /\ net.posts = 0 /\ net.uploadCalls = 0
    /\ net.submissions = 0 /\ net.fetches = 0

\* C4: short-circuit.  After a validation error no backend call was made;
\* after an image of the upload batch failed there is no submission; after
\* a failed submission there is no history fetch; after a polling error or
\* exhaustion there is no output resolution.
C4_ShortCircuit ==
    /\ result.error \in ValidationMessages =>
          NoBackendCall /\ net.writes = 0 /\ resolve.calls = 0
    /\ net.failed # <<>> =>
          net.submissions = 0 /\ net.fetches = 0 /\ resolve.calls = 0
    /\ net.submitFailed =>
          net.submissions = 1 /\ net.fetches = 0 /\ resolve.calls = 0
    /\ (net.raised > 0 \/ result = MaxRetriesError) => resolve.calls = 0

\* C4 witness: the second image of a batch of two failed after the first
\* was uploaded, and the handler returned
C4_Witness ==
    /\ pc = "done"
    /\ net.attempted = << 1, 2 >>
    /\ net.failed = << 2 >>
    /\ net.posts = 2

\* C5: no unrecovered fault.  No exception leaves the handler.
C5_NoUnrecoveredFault == pc # "raised" /\ fault = ""

\* C6: uniform failure shape.  Every result returned on a failure path has
\* an "error" key holding the message.
C6_UniformFailureShape ==
    (pc = "done" /\ result.status # "success") =>
        "error" \in result.keys /\ result.error # <<>>

\* the workflow has a node of an inline-base64 class
HasInlineNode(wf) ==
    \E k \in 1..Len(Items(wf)) :
        Items(wf)[k].class_type \in {"LoadImageFromBase64", "Base64ToImage"}

\* the number of nodes that carry image data
WrittenNodes(wf) ==
    Cardinality({ k \in 1..Len(wf.nodes) : wf.nodes[k].data # <<>> })

InOrder(log) == \A k \in 1..Len(log) : log[k] = k

\* C7: image routing.  The handler writes image data into at most one
\* node, and only when the images list is non-empty and the workflow has
\* an inline-base64 node; with a non-empty list and no such node,
\* upload_images is called once, handles every image exactly once in list
\* order, and no node is modified.
C7_ImageRouting ==
    /\ net.writes <= 1
    /\ WrittenNodes(workflow) <= 1
    /\ (net.writes > 0 \/ WrittenNodes(workflow) > 0) =>
          ImagesTruthy(images) /\ HasInlineNode(workflow)
    /\ (pc \notin {"validate", "probe", "inject"}
          /\ ImagesTruthy(images) /\ ~HasInlineNode(workflow)) =>
          /\ net.uploadCalls = 1
          /\ net.writes = 0 /\ WrittenNodes(workflow) = 0
          /\ InOrder(net.attempted)
          /\ Len(net.attempted) <= Len(images.elems)
          /\ pc # "upload" => Len(net.attempted) = Len(images.elems)

\* C7 witness: two images, a workflow without inline-base64 node, both
\* images uploaded in order and the workflow submitted
C7_Witness ==
    /\ Len(images.elems) = 2
    /\ ~HasInlineNode(workflow)
    /\ net.attempted = << 1, 2 >>
    /\ net.posts = 2
    /\ net.submissions = 1

\* C8: fail-soft upload aggregation.  upload_images handles every image of
\* the batch in order whatever happened to the earlier ones; its aggregate
\* status is "success" iff no image failed, otherwise "error" with one
\* entry of details per failed image.
C8_FailSoftUpload ==
    /\ InOrder(net.attempted)
    /\ pc = "upload" => Len(net.attempted) = upload.idx - 1
    /\ (net.uploadCalls > 0 /\ (pc # "upload" \/ upload.idx > Len(images.elems))) =>
          /\ Len(net.attempted) = Len(images.elems)
          /\ upload_result(upload).status = "success" <=> net.failed = <<>>
          /\ upload_result(upload).status \in {"success", "error"}
          /\ upload_result(upload).status = "error" =>
                upload_result(upload).details = net.failed
          /\ (pc # "upload" /\ net.failed # <<>>) =>
                result.status = "error" /\ result.details = net.failed

\* C8 witness: the first image of two failed, the second was still
\* uploaded, and the batch is reported as an error with one entry
C8_Witness ==
    /\ pc = "done"
    /\ net.attempted = << 1, 2 >>
    /\ net.failed = << 1 >>
    /\ upload.responses = << 2 >>
    /\ result.details = << 1 >>

\* the input is a mapping that has "workflow" or "workflow_name"
HasWorkflowOrName(inp) ==
    /\ \/ inp.form = "map"
       \/ inp.form = "str" /\ inp.parse = "mapping"
    /\ inp.body.workflow.wrap # "absent" \/ inp.body.workflow_name.present

\* the workflow the input supplies resolves: through the catalog when a
\* non-empty name is given, otherwise the inline workflow is non-empty
ResolvableWorkflow(inp, cat) ==
    IF inp.body.workflow_name.present /\ inp.body.workflow_name.chars # <<>>
    THEN Truthy(load_workflow_by_name(inp.body.workflow_name.chars, cat))
    ELSE inp.body.workflow.wrap = "none" /\ inp.body.workflow.nodes # <<>>

\* images is absent, or a list whose elements all have name and image
WellFormedImages(inp) ==
    \/ inp.body.images.kind = "absent"
    \/ /\ inp.body.images.kind = "list"
       /\ \A k \in 1..Len(inp.body.images.elems) :
             inp.body.images.elems[k].hasName /\ inp.body.images.elems[k].hasImage

\* C9: validation outcome.  For an input that has workflow or
\* workflow_name, validate_input succeeds iff the workflow resolves and
\* images, when present, is well formed; on success the request's workflow
\* is non-null, on failure there is no request and an error message; and
\* the handler goes on exactly when validation succeeded.
C9_ValidationOutcome ==
    HasWorkflowOrName(job_input) =>
        LET r  == validate_input(job_input, catalog)
            ok == ~r.raised /\ r.error = ""
        IN  /\ ok <=> (ResolvableWorkflow(job_input, catalog) /\ WellFormedImages(job_input))
            /\ ok => Truthy(r.data.workflow) /\ r.data.images = job_input.body.images
            /\ ~ok => ~r.raised /\ r.data = NoData /\ r.error # ""
            /\ pc # "validate" =>
                  IF ok THEN Truthy(workflow) /\ result.error \notin ValidationMessages
                        ELSE pc = "done" /\ result = ErrorResult(<< r.error >>)

\* C9 witness: a catalog workflow and a well-formed list of two images
\* passed validation
C9_Witness ==
    /\ pc = "probe"
    /\ job_input.body.workflow_name.chars = << "basic" >>
    /\ Len(job_input.body.images.elems) = 2
    /\ Truthy(workflow)

\* C10: backend probe.  check_server issues at most maxAttempts GETs; it
\* returns true at the first 200 and issues no GET after it; an attempt
\* that raises or answers another status counts as one failed attempt and
\* the loop goes on; it returns false after exactly maxAttempts failures.
C10_BackendProbe ==
    /\ net.gets <= COMFY_API_AVAILABLE_MAX_RETRIES
    /\ probe.ret = "none" => net.gets = net.probeFails
    /\ (probe.ret = "none" /\ net.gets > 0) => pc = "probe" /\ fault = ""
    /\ probe.ret = "true" =>
          net.lastProbe = "200" /\ net.gets = net.probeFails + 1
    /\ net.lastProbe = "200" => probe.ret = "true" /\ pc # "probe"
    /\ probe.ret = "false" =>
          /\ net.probeFails = COMFY_API_AVAILABLE_MAX_RETRIES
          /\ net.gets = net.probeFails
    /\ (pc = "probe" /\ net.probeFails = COMFY_API_AVAILABLE_MAX_RETRIES) =>
          ~ENABLED CheckServerAttempt

\* C10 witness: a transport error on the first attempt, 200 on the second
C10_Witness ==
    /\ probe.ret = "true"
    /\ net.gets = 2 /\ net.probeFails = 1

(* ------------------------------ C11 .. C20 ---------------------------- *)
Range(s) == { s[k] : k \in 1..Len(s) }

\* the file names the structured outputs mention
StructuredNames(outputs) ==
    UNION { { outputs[i].images[k].filename : k \in 1..Len(outputs[i].images) } :
            i \in { j \in 1..Len(outputs) : outputs[j].hasImages } }
OnDisk(fs) == { fs[k].name : k \in 1..Len(fs) }
\* the files of the directory with an image extension, younger than 30 s
RecentImageFiles(fs) ==
    { fs[k].name : k \in { j \in 1..Len(fs) :
                             /\ fs[j].name \in {"a.png", "b.png"}
                             /\ fs[j].age < 30 } }

\* C11: output fallback.  process_output_images scans the output directory
\* exactly when no path named by the structured outputs exists on disk;
\* when one exists the result lists only structured paths that exist, and
\* when the scan runs the result lists only image files younger than 30 s.
C11_OutputFallback ==
    (resolve.calls = 1 /\ fault # "KeyError") =>
        LET hits == StructuredNames(resolve.outputs) \cap OnDisk(resolve.fs)
        IN  /\ resolve.scanned <=> hits = {}
            /\ (pc = "done" /\ ~resolve.scanned) =>
                   /\ result.status = "success"
                   /\ Range(result.all_images) = hits
            /\ (pc = "done" /\ resolve.scanned) =>
                   /\ Range(result.all_images) = RecentImageFiles(resolve.fs)
                   /\ result.status = "error" <=> RecentImageFiles(resolve.fs) = {}

\* the scan ran on a directory that also holds a non-image file
C11_Witness ==
    /\ pc = "done"
    /\ resolve.scanned
    /\ Len(resolve.fs) = 2
    /\ result.all_images = << "b.png" >>

\* a structured path exists, and another recent image is not in the result
C11_WitnessNoScan ==
    /\ pc = "done"
    /\ ~resolve.scanned
    /\ resolve.fs = << File("b.png", 0), File("a.png", 0) >>
    /\ result.all_images = << "a.png" >>

\* the first structured path that exists, in the iteration order of outputs
FirstStructured(outputs, fs) ==
    LET pos == { p \in (1..Len(outputs)) \X (1..2) :
                   /\ outputs[p[1]].hasImages
                   /\ p[2] <= Len(outputs[p[1]].images)
                   /\ outputs[p[1]].images[p[2]].filename \in OnDisk(fs) }
        first == CHOOSE p \in pos : \A q \in pos :
                    p[1] < q[1] \/ (p[1] = q[1] /\ p[2] <= q[2])
    IN  outputs[first[1]].images[first[2]].filename

\* the first recent image file, in the order of the directory walk
FirstRecent(fs) ==
    LET pos == { j \in 1..Len(fs) : fs[j].name \in RecentImageFiles(fs) /\ fs[j].age < 30 }
    IN  fs[CHOOSE j \in pos : \A q \in pos : j <= q].name

\* the paths either strategy finds
Found(outputs, fs) ==
    IF StructuredNames(outputs) \cap OnDisk(fs) # {}
    THEN StructuredNames(outputs) \cap OnDisk(fs)
    ELSE RecentImageFiles(fs)
FirstFound(outputs, fs) ==
    IF StructuredNames(outputs) \cap OnDisk(fs) # {}
    THEN FirstStructured(outputs, fs)
    ELSE FirstRecent(fs)

\* what C12 states of a run whose polling has completed and whose output
\* resolution has ended
OutputSelection ==
    LET found == Found(resolve.outputs, resolve.fs)
    IN  /\ found # {} =>
              /\ result.status = "success"
              /\ result.path = FirstFound(resolve.outputs, resolve.fs)
              /\ result.message =
                    << (IF resolve.bucket THEN "url" ELSE "base64"), result.path >>
        /\ found = {} =>
              /\ result.status = "error"
              /\ result.message = << "No output images found in the output directory" >>
        /\ "refresh_worker" \in result.keys
        /\ resolve.uploads = (IF resolve.bucket /\ found # {} THEN 1 ELSE 0)

\* C12: output selection and final result.  Once polling has completed,
\* the handler returns status success iff a path was found, with the image
\* of the first path in discovery order, and status error otherwise, merged
\* with refresh_worker; the object-storage uploader runs only when the
\* endpoint setting is present and a path was found.
C12_OutputSelection ==
    (resolve.calls = 1 /\ pc \in {"done", "raised"}) => OutputSelection

\* the same statement for the runs in which output resolution returned
C12_WhenReturned ==
    (resolve.calls = 1 /\ pc = "done") => OutputSelection

\* several paths were found and the first one was returned
C12_ReturnedFirst ==
    /\ pc = "done"
    /\ Len(result.all_images) = 2
    /\ result.path = "b.png"

\* the payload C14 states for an image string
AfterFirstComma(str) ==
    LET commas == { i \in 1..Len(str) : str[i] = "," }
        first  == CHOOSE i \in commas : \A j \in commas : i <= j
    IN  [ k \in 1..(Len(str) - first) |-> str[first + k] ]
StatedPayload(str) ==
    IF Len(str) > 0 /\ str[1] = "data:" /\ (\E i \in 1..Len(str) : str[i] = ",")
    THEN AfterFirstComma(str)
    ELSE str

\* C14: data-URL stripping.  The payload used for upload and for
\* injection is the part of the image string after its first comma when
\* the string starts with the data-URL prefix, and the string itself when
\* it does not (or when a "data:" string has no comma); both stages
\* derive the same payload from the same string.
C14_DataUrlStripping ==
    /\ strip.uploaded => strip.upload = StatedPayload(strip.input)
    /\ strip.injected => strip.inject = StatedPayload(strip.input)
    /\ (strip.uploaded /\ strip.injected) => strip.upload = strip.inject

\* a data URL with two commas: only the first one ends the prefix
C14_Witness ==
    /\ strip.uploaded /\ strip.injected
    /\ strip.input = << "data:", ",", "A", "," >>
    /\ strip.upload = << "A", "," >>

\* a string with a comma and no prefix, and a prefix without a comma
C14_WitnessUnchanged ==
    /\ strip.uploaded /\ strip.injected
    /\ strip.input \in { << "A", ",", "A" >>, << "data:", "A" >> }
    /\ strip.inject = strip.input

\* the input names the catalog file
NamesCatalogFile ==
    /\ job_input.form = "map"
    /\ job_input.body.workflow_name.chars \in { << "basic" >>, CatalogPath }

\* what C15 states of a catalog file that parses
Canonical ==
    /\ load_workflow_by_name(<< "basic" >>, catalog) = Wf("none", catalog.nodes)
    /\ (NamesCatalogFile /\ pc = "probe") => workflow = Wf("none", catalog.nodes)

\* C15: workflow canonicalization.  For a catalog file holding {"prompt": W}
\* or {"input": {"workflow": W}}, load_workflow_by_name returns the inner
\* workflow W, and a file holding a bare workflow is returned as is.
C15_Canonicalization == catalog.state = "ok" => Canonical

\* the same statement without the {"input": {"workflow": W}} files
C15_PromptOrBare ==
    (catalog.state = "ok" /\ catalog.shape # "inputwf") => Canonical

\* a {"prompt": W} file was loaded and validated as W
C15_PromptUnwrapped ==
    /\ catalog.state = "ok" /\ catalog.shape = "prompt"
    /\ NamesCatalogFile /\ pc = "probe"
    /\ workflow = Wf("none", catalog.nodes) /\ Len(workflow.nodes) = 1

\* C17: submission protocol.  The handler submits the workflow at most
\* once and never retries a failed or malformed submission; it submits
\* only after validation succeeded and the images were injected or uploaded
\* without error; every history fetch follows a submission that returned a
\* prompt_id and asks for exactly that prompt_id.
C17_SubmissionProtocol ==
    /\ net.submissions <= 1
    /\ net.submissions = 1 =>
          /\ ~validate_input(job_input, catalog).raised
          /\ validate_input(job_input, catalog).error = ""
          /\ net.failed = <<>>
          /\ net.uploadCalls = 1 => Len(net.attempted) = Len(images.elems)
    /\ net.submitFailed =>
          /\ net.fetches = 0
          /\ pc = "done"
          /\ result.keys = {"error"}
          /\ result.error[1] = "Error queuing workflow"
    /\ net.fetches > 0 =>
          /\ net.submissions = 1
          /\ net.issued \in PromptIds
          /\ net.asked = { net.issued }

\* two images were uploaded, the submission returned p2 and two fetches
\* asked for p2
C17_Witness ==
    /\ Len(net.attempted) = 2
    /\ net.submissions = 1
    /\ net.issued = "p2"
    /\ net.fetches = 2
    /\ net.asked = { "p2" }

\* a submission that failed was not repeated
C17_WitnessFailed ==
    /\ net.submitFailed
    /\ net.submissions = 1
    /\ pc = "done"

\* the step that leaves the probe
LeavesProbe == pc = "probe" /\ pc' # "probe"

\* C18: the probe result is not a gate.  Whatever check_server returns,
\* the step that leaves the probe goes to image injection with no result
\* and no fault and with the validated workflow and images untouched; a job
\* ends without a submission only through a validation error or a failed
\* upload, so a probe that timed out alone never produces an error result.
C18_ProbeNotAGate ==
    /\ [][ LeavesProbe =>
              /\ probe'.ret \in {"true", "false"}
              /\ pc' = "inject"
              /\ result' = NoResult /\ fault' = ""
              /\ workflow' = workflow /\ images' = images ]_vars
    /\ []( (probe.ret \in {"true", "false"} /\ pc = "done" /\ net.submissions = 0)
              => (net.failed # <<>> /\ result.status = "error") )
    /\ []( (probe.ret = "false" /\ net.submissions = 1)
              => net.gets = COMFY_API_AVAILABLE_MAX_RETRIES )

\* the probe gave up, and the job was submitted and succeeded
C18_Witness ==
    /\ probe.ret = "false"
    /\ net.probeFails = COMFY_API_AVAILABLE_MAX_RETRIES
    /\ net.submissions = 1
    /\ pc = "done"
    /\ result.status = "success"

\* the first node of an inline-base64 class, in iteration order
FirstInline(wf) ==
    CHOOSE k \in 1..Len(wf.nodes) :
        /\ wf.nodes[k].class_type \in {"LoadImageFromBase64", "Base64ToImage"}
        /\ \A j \in 1..(k - 1) :
              wf.nodes[j].class_type \notin {"LoadImageFromBase64", "Base64ToImage"}

\* what C19 states of a job whose validated workflow orig has an
\* inline-base64 node and whose images list is not empty, once the
\* handler has passed the image stage
SingleInjection(orig) ==
    /\ workflow = [orig EXCEPT !.nodes[FirstInline(orig)].data =
                                  StatedPayload(images.elems[1].image)]
    /\ net.writes = 1
    /\ net.uploadCalls = 0 /\ net.posts = 0 /\ net.attempted = <<>>
    /\ net.submissions = 0 => (pc = "queue" /\ fault = "" /\ result = NoResult)

PastImageStage ==
    /\ pc \notin {"validate", "probe", "inject"}
    /\ ImagesTruthy(images)
    /\ HasInlineNode(validate_input(job_input, catalog).data.workflow)

\* C19: single injection drops the rest.  With an inline-base64 node in the
\* workflow and k >= 1 images, the handler writes the stripped payload of
\* the first image into inputs.data of the first matching node, leaves
\* every other node unchanged, never calls the uploader, and neither
\* injects nor uploads images 2..k, and reports no error.
C19_SingleInjection ==
    PastImageStage => SingleInjection(validate_input(job_input, catalog).data.workflow)

\* the same statement for workflows whose first matching node has "inputs"
C19_WhenInputs ==
    LET orig == validate_input(job_input, catalog).data.workflow
    IN  (PastImageStage /\ orig.nodes[FirstInline(orig)].hasInputs)
            => SingleInjection(orig)

\* two matching nodes and two images: one write, the job goes on
C19_OneOfTwo ==
    /\ PastImageStage
    /\ Len(images.elems) = 2
    /\ Len(workflow.nodes) = 2
    /\ \A k \in 1..2 : workflow.nodes[k].class_type # "KSampler"
    /\ workflow.nodes[2].data = <<>>
    /\ net.submissions = 1

\* the input is a mapping with a non-empty workflow_name
Named ==
    /\ job_input.form = "map" \/ (job_input.form = "str" /\ job_input.parse = "mapping")
    /\ job_input.body.workflow_name.present
    /\ job_input.body.workflow_name.chars # <<>>
\* the input is a mapping without workflow_name, or with an empty one
Unnamed ==
    /\ job_input.form = "map" \/ (job_input.form = "str" /\ job_input.parse = "mapping")
    /\ ~job_input.body.workflow_name.present \/ job_input.body.workflow_name.chars = <<>>
\* the inline workflow of the input is a non-empty mapping
UsableInline ==
    job_input.body.workflow.wrap # "absent" /\ job_input.body.workflow.nodes # <<>>
\* the catalog gives no workflow: no file, no JSON, or an empty workflow
ResolutionFails ==
    \/ catalog.state \in {"missing", "malformed"}
    \/ catalog.state = "ok" /\ catalog.shape \in {"bare", "prompt"} /\ catalog.nodes = <<>>

\* C20: workflow_name takes precedence.  With a non-empty workflow_name the
\* validated workflow is the one load_workflow_by_name returns for the
\* catalog file, whether or not an inline workflow is supplied too; when the
\* file is missing, malformed or holds an empty workflow, validation fails
\* with "Could not load workflow" even beside a usable inline workflow.  The
\* inline workflow is validated only when workflow_name is absent or empty.
C20_NamePrecedence ==
    /\ (Named /\ pc = "probe") =>
          /\ workflow = load_workflow_by_name(job_input.body.workflow_name.chars, catalog)
          /\ ~ResolutionFails
    /\ (Named /\ ResolutionFails /\ pc # "validate") =>
          /\ pc = "done"
          /\ result = ErrorResult(<< "Could not load workflow" >>)
          /\ net.submissions = 0
    /\ (Unnamed /\ pc = "probe") =>
          /\ UsableInline
          /\ workflow = job_input.body.workflow

\* a name and a usable inline workflow: the catalog's workflow was validated
C20_Witness ==
    /\ Named /\ UsableInline
    /\ pc = "probe"
    /\ workflow = Wf("none", catalog.nodes)
    /\ workflow # job_input.body.workflow

\* a name that does not resolve beside a usable inline workflow
C20_WitnessFails ==
    /\ Named /\ UsableInline /\ ResolutionFails
    /\ result = ErrorResult(<< "Could not load workflow" >>)

\* the requests one job has sent to the backend
Requests == net.gets + net.posts + net.submissions + net.fetches
RequestBound ==
    COMFY_API_AVAILABLE_MAX_RETRIES + Len(images.elems) + 1 + COMFY_POLLING_MAX_RETRIES

\* the polling loop is left by a populated record, by an exhausted budget
\* or by a fetch that raised
PollingEnds ==
    (pc = "poll" /\ pc' # "poll") =>
        \/ /\ net'.complete = net.complete + 1
           /\ pc' = "resolve"
        \/ /\ net'.fetches = net.fetches
           /\ poll.retries >= COMFY_POLLING_MAX_RETRIES
           /\ pc' = "done" /\ result' = MaxRetriesError
        \/ /\ net'.raised = net.raised + 1
           /\ pc' = "done" /\ result' = PollingError

\* C16: termination.  Every run of the handler eventually returns a
\* result; polling, once started, ends only through completion, an
\* exhausted retry budget or a fetch error; and one job sends at most
\* (probe maxAttempts) + (number of images) + 1 + (poll maxAttempts)
\* requests to the backend.
C16_Termination ==
    /\ <>(pc = "done" /\ result # NoResult)
    /\ [][PollingEnds]_vars
    /\ [](Requests <= RequestBound)

\* the same statement with "the handler ends", by a return or by an
\* exception, in place of "returns a result"
C16_Ends ==
    /\ <>[](pc \in {"done", "raised"})
    /\ [](pc = "done" => result # NoResult)
    /\ [][PollingEnds]_vars
    /\ [](Requests <= RequestBound)

\* a run that used the whole request budget
C16_FullBudget ==
    /\ Len(images.elems) = 2
    /\ pc = "done"
    /\ Requests = RequestBound
    /\ COMFY_POLLING_MAX_RETRIES = MaxPollRetries

\* the job for which the backend wrote the file of that name
WrittenFor(name) ==
    { backend.files[k].owner :
        k \in { i \in 1..Len(backend.files) : backend.files[i].name = name } }

\* the handle, the poll state and the record of slot j are its own
OwnState(j) ==
    /\ slots[j].queue.prompt_id # "" =>
          /\ backend.queued[IndexOf(slots[j].queue.prompt_id)] = j
          /\ \A k \in Jobs \ {j} : slots[k].queue.prompt_id # slots[j].queue.prompt_id
    /\ slots[j].poll.retries <= COMFY_POLLING_MAX_RETRIES
    /\ slots[j].poll.history.hasId =>
          slots[j].poll.history = backend.executed[IndexOf(slots[j].queue.prompt_id)]
\* the images of the result of slot j were produced for job j
OwnOutput(j) ==
    \A name \in Range(slots[j].result.all_images) : WrittenFor(name) = {j}

\* C13: job independence.  With two jobs handled in interleaved fashion,
\* each job's prompt_id, poll counter, history record and resolved output
\* come from its own submission only: no job's result contains an image
\* produced for the other job.
C13_JobIndependence ==
    \A j \in DOMAIN slots : OwnState(j) /\ OwnOutput(j)

\* the same statement for the results taken from the structured outputs
C13_StructuredIndependent ==
    \A j \in DOMAIN slots :
        /\ OwnState(j)
        /\ StructuredNames(slots[j].poll.history.outputs) # {} => OwnOutput(j)

\* both jobs succeeded, each with its own image
C13_BothSucceeded ==
    /\ DOMAIN slots = Jobs
    /\ slots[1].result.all_images = << "a.png" >>
    /\ slots[2].result.all_images = << "b.png" >>

====
